---------------------------- MODULE Spec2Model ----------------------------
(***************************************************************************)
(* A model of the MockAgent demonstration server:                          *)
(*   src/main.py    letter_counter, MockAgent and its output-capture shim  *)
(*   src/server.py  get_agent_instance and the /chat, /stream and /health  *)
(*                  handlers                                               *)
(*                                                                         *)
(* Two kinds of specification live here.  SpecLC applies the pure function *)
(* letter_counter to inputs drawn from bounded sets.  Spec runs the HTTP   *)
(* handlers as concurrent requests: /chat is a plain def, which FastAPI    *)
(* runs on a worker thread, so its steps interleave freely with anything;  *)
(* /stream and /health are coroutines of the one event loop, so between    *)
(* two awaits a coroutine is not interleaved with another coroutine (the   *)
(* variable loop holds the coroutine that is running).  SpecSerial is Spec *)
(* with the requests issued one after the other, and FairSpec is Spec with *)
(* the fairness of the event loop on the steps of the stream generator.    *)
(***************************************************************************)
EXTENDS Integers, Sequences, FiniteSets, TLC

\* ------------------------------------------------------------------ bounds
\* number of requests issued during one run of the server
NReq == 3
\* number of requests served at the same time
MaxInFlight == 2
\* number of events the agent library yields during one run of the server
MaxEvents == 2
\* longest `word` and longest `letter` handed to letter_counter
MaxWordLen == 3
MaxLetterLen == 2

Req == 1..NReq

VARIABLES
    \* letter_counter: its two arguments, where the call stands, its outcome
    lc_word, lc_letter, lc_pc, lc_out,
    \* server.py run as a script: position of the __main__ block
    main_pc,
    \* server.agent_instance, the handle the handlers share
    agent_instance,
    \* every MockAgent object ever bound to server.agent_instance
    constructed,
    \* sys.stdout and sys.stderr of the process
    sys_stdout, sys_stderr,
    \* the events the agent library has yielded so far, to all requests
    yielded,
    \* the coroutine running on the event loop, 0 when the loop is free
    loop,
    \* per request: position, the request body and endpoint, the local
    \* `agent`, the locals of the capture shim, the exception in flight,
    \* the list `events` and the `final_result` of generate(),
    \* the body and the state of the stream generator, the HTTP response
    pc, req, agent, original_stdout, original_stderr, exc,
    events, final_result, body, gen, resp,
    \* the request completed last, as it stood when its handler (for
    \* /stream: its generator) ended; the frame of a completed request is gone
    last

lc_vars == <<lc_word, lc_letter, lc_pc, lc_out>>

srv_vars == <<main_pc, agent_instance, constructed,
              sys_stdout, sys_stderr, yielded, loop, pc, req, agent,
              original_stdout, original_stderr, exc, events, final_result,
              body, gen, resp, last>>

vars == <<lc_vars, srv_vars>>

\* ------------------------------------------------------- letter_counter
\* A Python value handed to letter_counter: a str (its characters) or a
\* value of another type.
Text(s) == [isstr |-> TRUE, chars |-> s]

NotText == [isstr |-> FALSE, chars |-> <<>>]

\* the characters the bounded inputs are built from: a cased letter in both
\* cases, a second letter, a character without case
Alphabet == {"r", "R", "s", "1"}

\* the upper-case / lower-case pairs of the ASCII letters in use
CasePairs == {<<"R", "r">>, <<"S", "s">>, <<"T", "t">>, <<"A", "a">>,
              <<"W", "w">>, <<"B", "b">>, <<"E", "e">>, <<"Y", "y">>}

\* str.lower() on one character
LowerChar(c) ==
    IF \E p \in CasePairs : p[1] = c
    THEN (CHOOSE p \in CasePairs : p[1] = c)[2]
    ELSE c

\* str.lower()
Lower(s) == [i \in 1..Len(s) |-> LowerChar(s[i])]

\* str.count(sub) scanning from position i: the number of non-overlapping
\* occurrences of sub; the empty sub occurs between all characters
RECURSIVE CountFrom(_, _, _)
CountFrom(s, sub, i) ==
    IF Len(sub) = 0 THEN Len(s) + 1
    ELSE IF i + Len(sub) - 1 > Len(s) THEN 0
    ELSE IF SubSeq(s, i, i + Len(sub) - 1) = sub
         THEN 1 + CountFrom(s, sub, i + Len(sub))
         ELSE CountFrom(s, sub, i + 1)

StrCount(s, sub) == CountFrom(s, sub, 1)

Returned(v) == [kind |-> "return", val |-> v]

RaisedValueError == [kind |-> "raise", val |-> 0]

NoOutcome == [kind |-> "none", val |-> 0]

\* letter_counter without lower-casing the word
letter_counter_keepcase(word, letter) ==
    IF ~word.isstr \/ ~letter.isstr THEN Returned(0)
    ELSE IF Len(letter.chars) # 1 THEN RaisedValueError
    ELSE Returned(StrCount(word.chars, Lower(letter.chars)))

\* letter_counter without the check of the letter's length
letter_counter_nolencheck(word, letter) ==
    IF ~word.isstr \/ ~letter.isstr THEN Returned(0)
    ELSE Returned(StrCount(Lower(word.chars), Lower(letter.chars)))

\* letter_counter(word, letter)
letter_counter(word, letter) ==
    IF ~word.isstr \/ ~letter.isstr THEN Returned(0)
    ELSE IF Len(letter.chars) # 1 THEN RaisedValueError
    ELSE Returned(StrCount(Lower(word.chars), Lower(letter.chars)))

SeqsUpTo(S, n) == UNION {[1..k -> S] : k \in 0..n}

Strawberry == <<"s", "t", "r", "a", "w", "b", "e", "r", "r", "y">>

WordInputs == {Text(s) : s \in SeqsUpTo(Alphabet, MaxWordLen)}
                  \cup {Text(Strawberry), NotText}

LetterInputs == {Text(s) : s \in SeqsUpTo(Alphabet, MaxLetterLen)} \cup {NotText}

\* ------------------------------------------------------ objects and values
NoneObj == [cls |-> "NoneType", id |-> 0]

\* the MockAgent built by request i (0: by the __main__ block)
MockAgentObj(i) == [cls |-> "MockAgent", id |-> i]

\* the TempAgent built for Bedrock request i
TempAgentObj(i) == [cls |-> "TempAgent", id |-> i]

\* the attributes and methods an object of each class has
Attrs(cls) ==
    CASE cls = "MockAgent" ->
            {"boto_session", "bedrock_model", "openai_model", "agent",
             "run_test_scenario", "query", "query_async", "stream_async",
             "demo_streaming"}
      [] cls = "TempAgent" -> {"agent"}
      [] OTHER -> {}

\* hasattr(obj, name); obj.name raises AttributeError when it is false
HasAttr(obj, name) == name \in Attrs(obj.cls)

\* exceptions: the type and the message, a sequence of pieces of text
NoExc == [type |-> "none", msg |-> <<>>]

\* what the libraries raise while MockAgent() is built
ConstructError == [type |-> "Exception", msg |-> <<"MockAgent() failed">>]

\* what the agent library raises during a call
AgentError == [type |-> "Exception", msg |-> <<"agent call failed">>]

AttributeError(obj, name) ==
    [type |-> "AttributeError",
     msg |-> <<"'", obj.cls, "' object has no attribute '", name, "'">>]

\* str(e)
StrOf(e) == e.msg

\* the streams sys.stdout / sys.stderr can be bound to
Console(name) == [kind |-> name, owner |-> 0]

StringIO(r) == [kind |-> "StringIO", owner |-> r]

\* a local of the capture shim that is not bound yet
NoStream == [kind |-> "unbound", owner |-> 0]

\* the request: the endpoint and PromptRequest.use_bedrock
NoReq == [endpoint |-> "none", use_bedrock |-> FALSE]

Endpoints == {"chat", "stream", "health"}

\* the results agent(message) can return: with message['content'] or without
ResponseShapes == {[has_content |-> TRUE, content |-> <<"answer">>],
                   [has_content |-> FALSE, content |-> <<>>]}

\* the `result` an event can carry: none, or an AgentResult (truthy, with
\* a `metrics` attribute)
ResultKinds == {"absent", "AgentResult"}

\* the items of a stream's body
DataItem(k) == [kind |-> "data", chunk |-> k, text |-> <<>>]

MetricsItem == [kind |-> "metrics", chunk |-> 0, text |-> <<>>]

ErrorItem(e) == [kind |-> "error", chunk |-> 0, text |-> <<"Error: ">> \o StrOf(e)]

\* HTTP responses
NoResp == [code |-> 0, media |-> "", status |-> "", agent_initialized |-> FALSE,
           error |-> <<>>, response |-> <<>>, model |-> "", detail |-> <<>>]

\* StreamingResponse(generate(), media_type="text/event-stream", ...)
StreamingResponse == [NoResp EXCEPT !.code = 200, !.media = "text/event-stream"]

\* the dict chat_response returns
ChatBody(content, use_bedrock) ==
    [NoResp EXCEPT !.code = 200, !.media = "application/json",
                   !.response = content,
                   !.model = IF use_bedrock THEN "bedrock" ELSE "openai"]


\* HTTPException(status_code=500, detail=str(e))
HTTPException500(e) ==
    [NoResp EXCEPT !.code = 500, !.media = "application/json",
                   !.detail = StrOf(e)]


\* the dict health_check returns when get_agent_instance returned a
HealthyBody(a) ==
    [NoResp EXCEPT !.code = 200, !.media = "application/json",
                   !.status = "healthy", !.agent_initialized = (a # NoneObj)]

\* the dict health_check returns when get_agent_instance raised e
UnhealthyBody(e) ==
    [NoResp EXCEPT !.code = 200, !.media = "application/json",
                   !.status = "unhealthy", !.error = StrOf(e)]

\* the record of a completed request
NoLast == [endpoint |-> "none", use_bedrock |-> FALSE, exc |-> NoExc,
           resp |-> NoResp, gen |-> "none", body |-> <<>>, events |-> <<>>]

\* --------------------------------------------------------------- initial
InitLCIdle ==
    /\ lc_word = NotText
    /\ lc_letter = NotText
    /\ lc_pc = "done"
    /\ lc_out = NoOutcome

InitServer ==
    /\ main_pc = "boot"
    /\ agent_instance = NoneObj
    /\ constructed = {}
    /\ sys_stdout = Console("stdout")
    /\ sys_stderr = Console("stderr")
    /\ yielded = 0
    /\ loop = 0
    /\ pc = [r \in Req |-> "idle"]
    /\ req = [r \in Req |-> NoReq]
    /\ agent = [r \in Req |-> NoneObj]
    /\ original_stdout = [r \in Req |-> NoStream]
    /\ original_stderr = [r \in Req |-> NoStream]
    /\ exc = [r \in Req |-> NoExc]
    /\ events = [r \in Req |-> <<>>]
    /\ final_result = [r \in Req |-> "None"]
    /\ body = [r \in Req |-> <<>>]
    /\ gen = [r \in Req |-> "none"]
    /\ resp = [r \in Req |-> NoResp]
    /\ last = NoLast

Init == InitLCIdle /\ InitServer

InitLC ==
    /\ lc_word \in WordInputs
    /\ lc_letter \in LetterInputs
    /\ lc_pc = "call"
    /\ lc_out = NoOutcome
    /\ InitServer

\* the tool is called
LetterCounterCall ==
    /\ lc_pc = "call"
    /\ lc_out' = letter_counter(lc_word, lc_letter)
    /\ lc_pc' = "done"
    /\ UNCHANGED <<lc_word, lc_letter, srv_vars>>

\* ------------------------------------------------------------- scheduling
main_vars == <<main_pc, yielded>>

handle_vars == <<agent_instance, constructed>>

std_vars == <<sys_stdout, sys_stderr>>

shim_vars == <<original_stdout, original_stderr>>

relay_vars == <<events, final_result, body>>

\* Request r may take a step: a /chat request runs on its own worker thread,
\* a coroutine only while it is the one the event loop runs.
Runs(r) == req[r].endpoint = "chat" \/ loop = r

\* the loop after coroutine r reached an await or returned
Release(r) == IF loop = r THEN 0 ELSE loop

\* the requests being served
InFlight == {r \in Req : pc[r] \notin {"idle", "done"}}

\* no request is being served
AllQuiet == InFlight = {}

\* Where an exception raised in request r is handled.  `site` is "gai" for
\* the call of get_agent_instance and "try" for the rest of the handler:
\* chat_response and health_check call get_agent_instance inside their try,
\* generate() calls it before its try.  This variant puts the call of
\* chat_response outside the try as well.
ExceptPc_chat_gai_outside(endpoint, site) ==
    CASE endpoint = "chat" -> IF site = "gai" THEN "escaped" ELSE "chat_except"
      [] endpoint = "health" -> "health_except"
      [] OTHER -> IF site = "gai" THEN "gen_abort" ELSE "stream_except"

\* the same, with the call of health_check outside its try
ExceptPc_health_gai_outside(endpoint, site) ==
    CASE endpoint = "chat" -> "chat_except"
      [] endpoint = "health" -> IF site = "gai" THEN "escaped" ELSE "health_except"
      [] OTHER -> IF site = "gai" THEN "gen_abort" ELSE "stream_except"

ExceptPc(endpoint, site) ==
    CASE endpoint = "chat" -> "chat_except"
      [] endpoint = "health" -> "health_except"
      [] OTHER -> IF site = "gai" THEN "gen_abort" ELSE "stream_except"

\* request r raises e at `site`
Raise(r, e, site) ==
    /\ exc' = [exc EXCEPT ![r] = e]
    /\ pc' = [pc EXCEPT ![r] = ExceptPc(req[r].endpoint, site)]

\* Request r completes with HTTP response rsp, its generator (if any) in
\* state g with body b: the frame of the handler is gone, and a coroutine
\* gives the loop back.
Finish(r, rsp, g, b) ==
    /\ last' = [endpoint |-> req[r].endpoint,
                use_bedrock |-> req[r].use_bedrock, exc |-> exc[r],
                resp |-> rsp, gen |-> g, body |-> b,
                events |-> events[r]]
    /\ pc' = [pc EXCEPT ![r] = "done"]
    /\ req' = [req EXCEPT ![r] = NoReq]
    /\ agent' = [agent EXCEPT ![r] = NoneObj]
    /\ exc' = [exc EXCEPT ![r] = NoExc]
    /\ events' = [events EXCEPT ![r] = <<>>]
    /\ final_result' = [final_result EXCEPT ![r] = "None"]
    /\ body' = [body EXCEPT ![r] = <<>>]
    /\ gen' = [gen EXCEPT ![r] = "none"]
    /\ resp' = [resp EXCEPT ![r] = NoResp]
    /\ loop' = Release(r)

\* ---------------------------------------------------------------- startup
\* `python server.py`: the __main__ block builds a MockAgent (or logs the
\* failure to) and binds it to the agent_instance of module __main__, which
\* no handler reads; then it starts uvicorn on "server:app", which imports
\* server.py as module `server`, whose own agent_instance is None.
Startup ==
    /\ main_pc = "boot"
    /\ main_pc' = "serving"
    /\ UNCHANGED <<lc_vars, yielded, handle_vars, std_vars, loop, pc, req, agent,
                   shim_vars, exc, relay_vars, gen, resp, last>>

\* -------------------------------------------------------------- requests
\* A request arrives and its handler starts.  /chat starts on a worker
\* thread; /health starts on the event loop; stream_response runs on the
\* loop and returns the StreamingResponse at once, the body is generated
\* later.  Requests take the slots in order.
StartReq(r) ==
    /\ main_pc = "serving"
    /\ pc[r] = "idle"
    /\ \A q \in Req : q < r => pc[q] # "idle"
    /\ Cardinality(InFlight) < MaxInFlight
    /\ \E e \in Endpoints, ub \in BOOLEAN :
          /\ e = "health" => ~ub
          /\ e # "chat" => loop = 0
          /\ req' = [req EXCEPT ![r] = [endpoint |-> e, use_bedrock |-> ub]]
          /\ pc' = [pc EXCEPT ![r] = IF e = "stream" THEN "gen_start" ELSE "gai_check"]
          /\ loop' = IF e = "health" THEN r ELSE loop
          /\ resp' = [resp EXCEPT ![r] = IF e = "stream" THEN StreamingResponse ELSE NoResp]
          /\ gen' = [gen EXCEPT ![r] = IF e = "stream" THEN "open" ELSE "none"]
    /\ UNCHANGED <<lc_vars, main_vars, handle_vars, std_vars, agent, shim_vars,
                   exc, relay_vars, last>>

\* the server starts to iterate generate()
GenStart(r) ==
    /\ pc[r] = "gen_start"
    /\ loop = 0
    /\ loop' = r
    /\ pc' = [pc EXCEPT ![r] = "gai_check"]
    /\ UNCHANGED <<lc_vars, main_vars, handle_vars, std_vars, req, agent,
                   shim_vars, exc, relay_vars, gen, resp, last>>

\* ---------------------------------------------------- get_agent_instance
\* get_agent_instance without the test of the handle: always constructs
GaiCheck_always_construct(r) ==
    /\ pc[r] = "gai_check"
    /\ Runs(r)
    /\ pc' = [pc EXCEPT ![r] = "gai_construct"]
    /\ UNCHANGED <<lc_vars, main_vars, handle_vars, std_vars, loop, req, agent,
                   shim_vars, exc, relay_vars, gen, resp, last>>

\* `if agent_instance is None:`
GaiCheck(r) ==
    /\ pc[r] = "gai_check"
    /\ Runs(r)
    /\ pc' = [pc EXCEPT ![r] = IF agent_instance = NoneObj
                               THEN "gai_construct" ELSE "gai_select"]
    /\ UNCHANGED <<lc_vars, main_vars, handle_vars, std_vars, loop, req, agent,
                   shim_vars, exc, relay_vars, gen, resp, last>>

\* `agent_instance = MockAgent()`, where a failure also clears the handle
GaiConstruct_reset_on_failure(r) ==
    /\ pc[r] = "gai_construct"
    /\ Runs(r)
    /\ \/ /\ agent_instance' = MockAgentObj(r)
          /\ constructed' = constructed \cup {MockAgentObj(r)}
          /\ pc' = [pc EXCEPT ![r] = "gai_select"]
          /\ exc' = exc
       \/ /\ Raise(r, ConstructError, "gai")
          /\ agent_instance' = NoneObj
          /\ UNCHANGED constructed
    /\ UNCHANGED <<lc_vars, main_vars, std_vars, loop, req, agent, shim_vars,
                   relay_vars, gen, resp, last>>

\* `agent_instance = MockAgent()`: the construction succeeds and the handle
\* is bound to the new object, or the construction raises and the handle is
\* left as it is
GaiConstruct(r) ==
    /\ pc[r] = "gai_construct"
    /\ Runs(r)
    /\ \/ /\ agent_instance' = MockAgentObj(r)
          /\ constructed' = constructed \cup {MockAgentObj(r)}
          /\ pc' = [pc EXCEPT ![r] = "gai_select"]
          /\ exc' = exc
       \/ /\ Raise(r, ConstructError, "gai")
          /\ UNCHANGED <<agent_instance, constructed>>
    /\ UNCHANGED <<lc_vars, main_vars, std_vars, loop, req, agent, shim_vars,
                   relay_vars, gen, resp, last>>

\* the handler's next position once get_agent_instance has returned
AfterGai(endpoint) ==
    CASE endpoint = "chat" -> "chat_query"
      [] endpoint = "health" -> "health_ok"
      [] OTHER -> "stream_call"

\* what get_agent_instance returns: a new TempAgent around a Bedrock agent
\* when use_bedrock and the handle has a bedrock_model, else the handle
GaiResult(r, use_bedrock) ==
    IF use_bedrock /\ HasAttr(agent_instance, "bedrock_model")
    THEN TempAgentObj(r)
    ELSE agent_instance

\* the Bedrock branch and `return agent_instance`; the handler binds the
\* result to its local `agent`
GaiSelect(r) ==
    /\ pc[r] = "gai_select"
    /\ Runs(r)
    /\ agent' = [agent EXCEPT ![r] = GaiResult(r, req[r].use_bedrock)]
    /\ pc' = [pc EXCEPT ![r] = AfterGai(req[r].endpoint)]
    /\ UNCHANGED <<lc_vars, main_vars, handle_vars, std_vars, loop, req,
                   shim_vars, exc, relay_vars, gen, resp, last>>

\* ---------------------------------------------------- the capture shim
\* _capture_output (agent.query, on the thread of a /chat request) and
\* _capture_output_async (agent.stream_async, in the generator of a /stream
\* request) run the same statements around the agent call.

\* `original_stdout = sys.stdout; original_stderr = sys.stderr`
ShimSave(r) ==
    /\ original_stdout' = [original_stdout EXCEPT ![r] = sys_stdout]
    /\ original_stderr' = [original_stderr EXCEPT ![r] = sys_stderr]

\* `captured_output = StringIO(); sys.stdout = captured_output;
\* sys.stderr = captured_output`; then the agent is called: on the thread
\* for /chat, while the generator of /stream awaits the first event and the
\* loop is free for other coroutines
CapRedirect(r) ==
    /\ pc[r] = "cap_redirect"
    /\ Runs(r)
    /\ sys_stdout' = StringIO(r)
    /\ sys_stderr' = StringIO(r)
    /\ pc' = [pc EXCEPT ![r] = IF req[r].endpoint = "chat"
                               THEN "cap_call" ELSE "stream_iter"]
    /\ loop' = Release(r)
    /\ UNCHANGED <<lc_vars, main_vars, handle_vars, req, agent, shim_vars,
                   exc, relay_vars, gen, resp, last>>

\* finally: `sys.stdout = original_stdout; sys.stderr = original_stderr`;
\* the locals of the shim are gone after it
ShimRestore(r) ==
    /\ sys_stdout' = original_stdout[r]
    /\ sys_stderr' = original_stderr[r]
    /\ original_stdout' = [original_stdout EXCEPT ![r] = NoStream]
    /\ original_stderr' = [original_stderr EXCEPT ![r] = NoStream]

\* `result = func(*args, **kwargs)` returns; finally; `return result`
CapCallReturns(r) ==
    /\ pc[r] = "cap_call"
    /\ Runs(r)
    /\ ShimRestore(r)
    /\ pc' = [pc EXCEPT ![r] = "chat_finish"]
    /\ UNCHANGED <<lc_vars, main_vars, handle_vars, loop, req, agent, exc,
                   relay_vars, gen, resp, last>>

\* `result = func(*args, **kwargs)` raises; finally; the exception goes on
\* to the handler
CapCallRaises(r) ==
    /\ pc[r] = "cap_call"
    /\ Runs(r)
    /\ ShimRestore(r)
    /\ Raise(r, AgentError, "try")
    /\ UNCHANGED <<lc_vars, main_vars, handle_vars, loop, req, agent,
                   relay_vars, gen, resp, last>>

\* ------------------------------------------------------------------ /chat
\* `response = agent.query(request.prompt)`: the attribute is looked up and
\* the call enters _capture_output, which saves the two streams
ChatQuery(r) ==
    /\ pc[r] = "chat_query"
    /\ Runs(r)
    /\ IF HasAttr(agent[r], "query")
       THEN /\ ShimSave(r)
            /\ pc' = [pc EXCEPT ![r] = "cap_redirect"]
            /\ exc' = exc
       ELSE /\ Raise(r, AttributeError(agent[r], "query"), "try")
            /\ UNCHANGED shim_vars
    /\ UNCHANGED <<lc_vars, main_vars, handle_vars, std_vars, loop, req, agent,
                   relay_vars, gen, resp, last>>

\* the content of the answer: response.message['content'], or str(response)
ChatContent(rsp) ==
    IF rsp.has_content THEN rsp.content ELSE <<"str(response)">>

\* the content of the result (of either shape) is extracted,
\* agent.condense_metrics is looked up and called, and the dict is returned
ChatFinish(r) ==
    /\ pc[r] = "chat_finish"
    /\ Runs(r)
    /\ \E response \in ResponseShapes :
          IF HasAttr(agent[r], "condense_metrics")
          THEN Finish(r, ChatBody(ChatContent(response), req[r].use_bedrock),
                      "none", <<>>)
          ELSE /\ Raise(r, AttributeError(agent[r], "condense_metrics"), "try")
               /\ UNCHANGED <<loop, req, agent, relay_vars, gen, resp, last>>
    /\ UNCHANGED <<lc_vars, main_vars, handle_vars, std_vars, shim_vars>>

\* `except Exception as e: raise HTTPException(status_code=500, detail=str(e))`
ChatExcept(r) ==
    /\ pc[r] = "chat_except"
    /\ Runs(r)
    /\ Finish(r, HTTPException500(exc[r]), "none", <<>>)
    /\ UNCHANGED <<lc_vars, main_vars, handle_vars, std_vars, shim_vars>>

\* ---------------------------------------------------------------- /health
\* `return {"status": "healthy", "agent_initialized": agent is not None, ...}`
HealthOk(r) ==
    /\ pc[r] = "health_ok"
    /\ Runs(r)
    /\ Finish(r, HealthyBody(agent[r]), "none", <<>>)
    /\ UNCHANGED <<lc_vars, main_vars, handle_vars, std_vars, shim_vars>>

\* `except Exception as e: return {"status": "unhealthy", "error": str(e)}`
HealthExcept(r) ==
    /\ pc[r] = "health_except"
    /\ Runs(r)
    /\ Finish(r, UnhealthyBody(exc[r]), "none", <<>>)
    /\ UNCHANGED <<lc_vars, main_vars, handle_vars, std_vars, shim_vars>>

\* ---------------------------------------------------------------- /stream
\* `agent.stream_async(request.prompt)`: the attribute is looked up inside
\* the try of generate(); the first step of the iteration enters
\* _capture_output_async, which saves the two streams
StreamCall(r) ==
    /\ pc[r] = "stream_call"
    /\ Runs(r)
    /\ IF HasAttr(agent[r], "stream_async")
       THEN /\ ShimSave(r)
            /\ pc' = [pc EXCEPT ![r] = "cap_redirect"]
            /\ exc' = exc
       ELSE /\ Raise(r, AttributeError(agent[r], "stream_async"), "try")
            /\ UNCHANGED shim_vars
    /\ UNCHANGED <<lc_vars, main_vars, handle_vars, std_vars, loop, req, agent,
                   relay_vars, gen, resp, last>>

\* The agent yields its next event, with or without a `data` field and with
\* or without a `result`; the relay forwards the data as an SSE item and
\* keeps the result.  The generator then awaits the next event.
StreamEvent(r) ==
    /\ pc[r] = "stream_iter"
    /\ loop = 0
    /\ yielded < MaxEvents
    /\ yielded' = yielded + 1
    /\ \E has_data \in BOOLEAN, result \in ResultKinds :
          /\ body' = [body EXCEPT ![r] =
                        IF has_data
                        THEN Append(body[r], DataItem(Len(events[r]) + 1))
                        ELSE body[r]]
          /\ final_result' = [final_result EXCEPT ![r] =
                        IF result # "absent" THEN result ELSE final_result[r]]
          /\ events' = [events EXCEPT ![r] =
                        Append(events[r], [data |-> has_data, result |-> result])]
    /\ UNCHANGED <<lc_vars, main_pc, handle_vars, std_vars, loop, pc, req,
                   agent, shim_vars, exc, gen, resp, last>>

\* the agent's event sequence ends: the loop resumes the generator, the
\* finally clause of the shim restores the streams and the relay leaves its
\* loop
StreamExhausted(r) ==
    /\ pc[r] = "stream_iter"
    /\ loop = 0
    /\ loop' = r
    /\ ShimRestore(r)
    /\ pc' = [pc EXCEPT ![r] = "stream_metrics"]
    /\ UNCHANGED <<lc_vars, main_vars, handle_vars, req, agent, exc,
                   relay_vars, gen, resp, last>>

\* the agent raises instead of yielding: the loop resumes the generator, the
\* finally clause of the shim restores the streams and the exception goes on
\* to generate()
StreamAgentRaises(r) ==
    /\ pc[r] = "stream_iter"
    /\ loop = 0
    /\ loop' = r
    /\ ShimRestore(r)
    /\ Raise(r, AgentError, "try")
    /\ UNCHANGED <<lc_vars, main_vars, handle_vars, req, agent,
                   relay_vars, gen, resp, last>>

\* `if final_result and hasattr(final_result, 'metrics'):`
WantsMetrics(result) == result = "AgentResult"

\* after the loop: the metrics of the last result are condensed by
\* agent.condense_metrics and sent as one more item; the generator returns
StreamMetrics(r) ==
    /\ pc[r] = "stream_metrics"
    /\ Runs(r)
    /\ IF WantsMetrics(final_result[r])
       THEN IF HasAttr(agent[r], "condense_metrics")
            THEN Finish(r, resp[r], "finished", Append(body[r], MetricsItem))
            ELSE /\ Raise(r, AttributeError(agent[r], "condense_metrics"), "try")
                 /\ UNCHANGED <<loop, req, agent, relay_vars, gen, resp, last>>
       ELSE Finish(r, resp[r], "finished", body[r])
    /\ UNCHANGED <<lc_vars, main_vars, handle_vars, std_vars, shim_vars>>

\* the except clause of generate(), never returning
StreamExcept_hangs(r) ==
    /\ pc[r] = "stream_except"
    /\ Runs(r)
    /\ UNCHANGED vars

\* `except Exception as e: yield f"Error: {str(e)}"`; the generator returns
StreamExcept(r) ==
    /\ pc[r] = "stream_except"
    /\ Runs(r)
    /\ Finish(r, resp[r], "finished", Append(body[r], ErrorItem(exc[r])))
    /\ UNCHANGED <<lc_vars, main_vars, handle_vars, std_vars, shim_vars>>

\* get_agent_instance raised before the try of generate(): the exception
\* leaves the generator and the server drops the response it had started
GenAbort(r) ==
    /\ pc[r] = "gen_abort"
    /\ Runs(r)
    /\ Finish(r, resp[r], "raised", body[r])
    /\ UNCHANGED <<lc_vars, main_vars, handle_vars, std_vars, shim_vars>>

\* ------------------------------------------------------- specifications
\* one step of request r after its start
Step(r) ==
    \/ GenStart(r)
    \/ GaiCheck(r)
    \/ GaiConstruct(r)
    \/ GaiSelect(r)
    \/ CapRedirect(r)
    \/ CapCallReturns(r)
    \/ CapCallRaises(r)
    \/ ChatQuery(r)
    \/ ChatFinish(r)
    \/ ChatExcept(r)
    \/ HealthOk(r)
    \/ HealthExcept(r)
    \/ StreamCall(r)
    \/ StreamEvent(r)
    \/ StreamExhausted(r)
    \/ StreamAgentRaises(r)
    \/ StreamMetrics(r)
    \/ StreamExcept(r)
    \/ GenAbort(r)

\* requests arrive at any time
Next ==
    \/ Startup
    \/ \E r \in Req : StartReq(r)
    \/ \E r \in Req : Step(r)

Spec == Init /\ [][Next]_vars

\* a request arrives only when no other is being served
NextSerial ==
    \/ Startup
    \/ \E r \in Req : AllQuiet /\ StartReq(r)
    \/ \E r \in Req : Step(r)

SpecSerial == Init /\ [][NextSerial]_vars

\* the event loop resumes a generator whose awaited event has arrived, and
\* runs it to its next await or to its end
FairSpec ==
    /\ Spec
    /\ \A r \in Req : WF_vars(StreamMetrics(r))
    /\ \A r \in Req : WF_vars(StreamExcept(r))

\* letter_counter applied to each of the bounded inputs
NextLC == LetterCounterCall

SpecLC == InitLC /\ [][NextLC]_vars


\* ------------------------------------------------------------- properties

\* two characters are the same letter, ignoring case
SameLetter(c, d) == c = d \/ <<c, d>> \in CasePairs \/ <<d, c>> \in CasePairs

\* the positions of word w that hold letter c, ignoring case
PositionsOf(w, c) == {i \in 1..Len(w) : SameLetter(w[i], c)}

\* C6: for a textual word and a one-character letter, letter_counter returns
\* the number of positions of the word that hold the letter, ignoring case;
\* letter_counter("strawberry", "r") is 3, and so is it for "R".
C6_LetterCounterCountsIgnoringCase ==
    (lc_pc = "done" /\ lc_word.isstr /\ lc_letter.isstr /\ Len(lc_letter.chars) = 1)
    => /\ lc_out = Returned(Cardinality(PositionsOf(lc_word.chars, lc_letter.chars[1])))
       /\ (lc_word = Text(Strawberry) /\ lc_letter.chars[1] \in {"r", "R"})
             => lc_out.val = 3

C6_Witness ==
    /\ lc_pc = "done"
    /\ lc_word = Text(Strawberry)
    /\ lc_letter = Text(<<"R">>)
    /\ lc_out = Returned(3)

\* C7 as stated: whenever the letter is a string of length other than 1,
\* letter_counter raises and returns no count, whatever the word is.
C7_RaisesForAnyWord ==
    (lc_pc = "done" /\ lc_letter.isstr /\ Len(lc_letter.chars) # 1)
    => lc_out = RaisedValueError

\* C7 (amended): whenever the word is textual and the letter is a string of
\* length other than 1, letter_counter raises and returns no count; when the
\* word is not textual it returns 0 without looking at the letter.
C7_RaisesForTextualWord ==
    /\ (lc_pc = "done" /\ lc_word.isstr /\ lc_letter.isstr /\ Len(lc_letter.chars) # 1)
          => lc_out = RaisedValueError
    /\ (lc_pc = "done" /\ ~lc_word.isstr) => lc_out = Returned(0)

C7_Witness ==
    /\ lc_pc = "done"
    /\ lc_word.isstr
    /\ Len(lc_word.chars) > 0
    /\ lc_letter.isstr
    /\ Len(lc_letter.chars) = 2
    /\ lc_out = RaisedValueError

\* request r holds the value get_agent_instance returned to it
GotAgent(r) ==
    \/ pc[r] \in {"chat_query", "health_ok", "stream_call", "cap_redirect",
                  "cap_call", "stream_iter", "chat_finish", "stream_metrics"}
    \/ pc[r] \in {"chat_except", "stream_except"} /\ exc[r] # ConstructError

\* request r is between the save and the restore of a capture
InCapture(r) == pc[r] \in {"cap_redirect", "cap_call", "stream_iter"}

\* C1 as stated: every completed POST /chat answers 200 with non-empty
\* content and the model label that matches use_bedrock.
C1_ChatAnswers200 ==
    last.endpoint = "chat"
    => /\ last.resp.code = 200
       /\ last.resp.response # <<>>
       /\ last.resp.model = (IF last.use_bedrock THEN "bedrock" ELSE "openai")

\* C2: every POST /stream answers 200 with media type text/event-stream, and
\* once the agent call has completed, normally or by raising, the stream
\* comes to its end.
C2_StreamAnswersAndTerminates ==
    /\ [](\A r \in Req : req[r].endpoint = "stream"
             => resp[r].code = 200 /\ resp[r].media = "text/event-stream")
    /\ [](last.endpoint = "stream"
             => last.resp.code = 200 /\ last.resp.media = "text/event-stream")
    /\ \A r \in Req : (pc[r] \in {"stream_metrics", "stream_except"})
                         ~> (pc[r] = "done")

C2_Witness ==
    /\ last.endpoint = "stream"
    /\ last.resp.media = "text/event-stream"
    /\ last.gen = "finished"
    /\ Len(last.body) > 0

\* C3: an exception raised while /chat obtains the agent, runs the query or
\* builds the result leaves the handler as HTTP 500 whose detail is the
\* text of that exception, and in no other form.
C3_ChatExceptionIs500 ==
    /\ \A r \in Req : req[r].endpoint = "chat" => pc[r] # "escaped"
    /\ (last.endpoint = "chat" /\ last.exc # NoExc)
          => /\ last.resp.code = 500
             /\ last.resp.detail = StrOf(last.exc)
             /\ last.resp.response = <<>>
    /\ (last.endpoint = "chat" /\ last.exc = NoExc) => last.resp.code = 200

C3_Witness ==
    /\ last.endpoint = "chat"
    /\ last.exc = ConstructError
    /\ last.resp.code = 500
    /\ last.resp.detail = StrOf(ConstructError)

\* C4 as stated: an error during the generation of a /stream body ends the
\* body with one "Error: <message>" item, nothing after it, and the
\* generator finishes normally.
C4_StreamErrorInBand ==
    (last.endpoint = "stream" /\ last.exc # NoExc)
    => /\ last.gen = "finished"
       /\ Len(last.body) > 0
       /\ last.body[Len(last.body)] = ErrorItem(last.exc)
       /\ \A i \in 1..(Len(last.body) - 1) : last.body[i].kind = "data"

\* C5: GET /health never raises; it answers "healthy" with agent_initialized
\* true whenever the agent was obtained, and "unhealthy" with the text of
\* the exception whenever obtaining it raised.
C5_HealthNeverRaises ==
    /\ \A r \in Req : req[r].endpoint = "health" => pc[r] # "escaped"
    /\ last.endpoint = "health"
          => /\ last.resp.code = 200
             /\ last.exc = NoExc
                   => /\ last.resp.status = "healthy"
                      /\ last.resp.agent_initialized
             /\ last.exc # NoExc
                   => /\ last.resp.status = "unhealthy"
                      /\ last.resp.error = StrOf(last.exc)

C5_Witness ==
    /\ last.endpoint = "health"
    /\ last.resp.status = "healthy"
    /\ last.resp.agent_initialized
    /\ constructed # {}

C9_RaceOnlyRebuilds ==
    /\ [](\A r \in Req : GotAgent(r)
             => /\ agent[r] # NoneObj
                /\ agent[r].cls = "MockAgent" => agent[r] \in constructed)
    /\ [](constructed # {} => agent_instance \in constructed)
    /\ [][(agent_instance # NoneObj /\ \A r \in Req : pc[r] # "gai_construct")
             => /\ agent_instance' = agent_instance
                /\ \A r \in Req :
                      (pc[r] = "gai_select" /\ pc'[r] # "gai_select"
                          /\ ~req[r].use_bedrock)
                      => agent'[r] = agent_instance]_vars

C9_Witness ==
    /\ Cardinality(constructed) >= 2
    /\ \A r \in Req : pc[r] # "gai_construct"
    /\ \E r \in Req : /\ GotAgent(r)
                      /\ ~req[r].use_bedrock
                      /\ agent[r] = agent_instance
                      /\ MockAgentObj(r) \notin constructed

\* C10 as stated: whenever no capture is in progress, sys.stdout and
\* sys.stderr are the streams they were before any capture began.
C10_StreamsRestored ==
    (\A r \in Req : ~InCapture(r))
    => /\ sys_stdout = Console("stdout")
       /\ sys_stderr = Console("stderr")

\* the `data: <chunk>` items of the events evs, one for each event that
\* carries `data`, in the order of the events
DataItemsOf(evs) ==
    LET idx == SelectSeq([i \in 1..Len(evs) |-> i], LAMBDA i : evs[i].data)
    IN  [k \in 1..Len(idx) |-> DataItem(idx[k])]

\* some event of evs carries a `result`
SomeResult(evs) == \E i \in 1..Len(evs) : evs[i].result # "absent"

\* the stream completed last saw its agent yield every event and end
\* without raising
AgentEnded ==
    /\ last.endpoint = "stream"
    /\ last.gen = "finished"
    /\ \/ last.exc = NoExc
       \/ \E r \in Req :
             last.exc = AttributeError(MockAgentObj(r), "condense_metrics")

\* C11 as stated: when the agent yields its events without error, the body
\* of the stream is one `data:` item for each event that carries `data`, in
\* the agent's order, followed by at most one `event: metrics` item, which
\* is there only if some event carried a `result`.
C11_RelayBody ==
    AgentEnded
    => \/ last.body = DataItemsOf(last.events)
       \/ /\ SomeResult(last.events)
          /\ last.body = DataItemsOf(last.events) \o <<MetricsItem>>

=============================================================================
